---- MODULE Spec2Model ----
(***************************************************************************)
(* mesh-router-agent: the orchestrator of src/src/index.ts (main), the     *)
(* STUN discovery client of src/src/services/StunClient.ts, parseProvider  *)
(* of EnvConfig and the address validation of IpRegistrar.                 *)
(*                                                                         *)
(* Strings are sequences of one-character strings, buffers are sequences   *)
(* of bytes (0..255); JavaScript index i is TLA+ index i + 1.              *)
(***************************************************************************)
EXTENDS Integers, Sequences, FiniteSets, TLC

(***************************************************************************)
(* Bounds of the model.                                                    *)
(***************************************************************************)
\* Longest validity (in sleep ticks) the authority gives a certificate.
MaxValidity == 2
\* Certificate serial numbers are counted modulo this.
SerialMod == 3

(***************************************************************************)
(* Program constants.                                                      *)
(***************************************************************************)
STUN_BINDING_REQUEST == 1
STUN_BINDING_RESPONSE == 257
STUN_MAGIC_COOKIE == 554869826
STUN_ATTR_MAPPED_ADDRESS == 1
STUN_ATTR_XOR_MAPPED_ADDRESS == 32
TARGET_PORT == 443
ROUTE_PRIORITY == 1

\* { host, port, family } of StunClient.ts, in list order.
STUN_SERVERS ==
  << [host |-> "stun.l.google.com",     port |-> 19302, family |-> 4],
     [host |-> "stun1.l.google.com",    port |-> 19302, family |-> 4],
     [host |-> "stun2.l.google.com",    port |-> 19302, family |-> 4],
     [host |-> "stun.cloudflare.com",   port |-> 3478,  family |-> 4],
     [host |-> "stun.stunprotocol.org", port |-> 3478,  family |-> 4],
     [host |-> "stun.l.google.com",     port |-> 19302, family |-> 6],
     [host |-> "stun1.l.google.com",    port |-> 19302, family |-> 6],
     [host |-> "stun.cloudflare.com",   port |-> 3478,  family |-> 6] >>

(***************************************************************************)
(* Numbers, bytes and strings.                                             *)
(***************************************************************************)
Min(a, b) == IF a < b THEN a ELSE b

RECURSIVE BitXor(_, _)
\* JavaScript a ^ b on non-negative integers.
BitXor(a, b) ==
  IF a = 0 THEN b
  ELSE IF b = 0 THEN a
  ELSE (((a % 2) + (b % 2)) % 2) + 2 * BitXor(a \div 2, b \div 2)

DecDigits == <<"0", "1", "2", "3", "4", "5", "6", "7", "8", "9">>
HexDigits == DecDigits \o <<"a", "b", "c", "d", "e", "f">>

RECURSIVE DecStr(_)
\* Number to decimal string, as template interpolation `${n}` gives it.
DecStr(n) ==
  IF n < 10 THEN <<DecDigits[n + 1]>>
  ELSE DecStr(n \div 10) \o <<DecDigits[(n % 10) + 1]>>

RECURSIVE HexStr(_)
\* Number.prototype.toString(16): lower case, no leading zeros.
HexStr(n) ==
  IF n < 16 THEN <<HexDigits[n + 1]>>
  ELSE HexStr(n \div 16) \o <<HexDigits[(n % 16) + 1]>>

RECURSIVE Join(_, _)
\* Array.prototype.join(sep) on a sequence of strings.
Join(parts, sep) ==
  IF Len(parts) = 0 THEN <<>>
  ELSE IF Len(parts) = 1 THEN parts[1]
  ELSE parts[1] \o sep \o Join(Tail(parts), sep)

\* What `${buf[i]}` yields: the byte in decimal, or "undefined" past the end.
ByteStr(buf, i) ==
  IF i < Len(buf) THEN DecStr(buf[i + 1])
  ELSE <<"u", "n", "d", "e", "f", "i", "n", "e", "d">>

\* buf[i] as an operand of ^: undefined converts to 0.
ByteOrZero(buf, i) == IF i < Len(buf) THEN buf[i + 1] ELSE 0

\* Buffer.slice(from, to): clamped to the buffer, never throws.
slice(buf, from, to) == SubSeq(buf, Min(from, Len(buf)) + 1, Min(to, Len(buf)))

\* Buffer.readUInt8 / readUInt16BE / readUInt32BE throw a RangeError when the
\* read does not fit in the buffer; InRange is the condition under which they
\* return.
InRange(buf, offset, n) == offset + n <= Len(buf)
readUInt8(buf, offset) == buf[offset + 1]
readUInt16BE(buf, offset) == buf[offset + 1] * 256 + buf[offset + 2]
readUInt32BE(buf, offset) ==
  ((buf[offset + 1] * 256 + buf[offset + 2]) * 256 + buf[offset + 3]) * 256
    + buf[offset + 4]

\* Buffer.writeUInt16BE / writeUInt32BE into a fresh buffer.
UInt16Bytes(v) == <<(v \div 256) % 256, v % 256>>
UInt32Bytes(v) ==
  <<(v \div 16777216) % 256, (v \div 65536) % 256, (v \div 256) % 256, v % 256>>

(***************************************************************************)
(* StunClient.ts: the binding request and the response parser.             *)
(***************************************************************************)
\* formatIpv6 reads 8 groups with readUInt16BE, which throws on a buffer of
\* fewer than 16 bytes.
formatIpv6Throws(bytes) == Len(bytes) < 16
formatIpv6(bytes) ==
  Join([g \in 1..8 |-> HexStr(readUInt16BE(bytes, 2 * (g - 1)))], <<":">>)

\* The 20-byte request for a given transaction id.
createBindingRequest(transactionId) ==
  UInt16Bytes(STUN_BINDING_REQUEST) \o UInt16Bytes(0)
    \o UInt32Bytes(STUN_MAGIC_COOKIE) \o transactionId

\* Results of parseBindingResponse: an address, null, or a thrown RangeError.
NullResult == [kind |-> "null", ip |-> <<>>, port |-> 0, family |-> 0]
ThrowResult == [kind |-> "throw", ip |-> <<>>, port |-> 0, family |-> 0]
Address(ip, port, family) ==
  [kind |-> "addr", ip |-> ip, port |-> port, family |-> family]

\* No branch of an attribute returned: the loop goes on.
SkipResult == [kind |-> "skip", ip |-> <<>>, port |-> 0, family |-> 0]

\* Variant of XorMappedAddress: the port is XORed with the low half of the
\* magic cookie.
XorMappedAddressLowHalf(attrValue, attrLength, transactionId) ==
  IF ~InRange(attrValue, 1, 1) \/ ~InRange(attrValue, 2, 2) THEN ThrowResult
  ELSE
    LET family == readUInt8(attrValue, 1)
        xorPort == readUInt16BE(attrValue, 2)
        port == BitXor(xorPort, STUN_MAGIC_COOKIE % 65536)
    IN  IF family = 1 /\ attrLength >= 8 THEN
          LET xorIpBytes == slice(attrValue, 4, 8)
              magicCookieBytes == UInt32Bytes(STUN_MAGIC_COOKIE)
              ipBytes == [i \in 1..4 |->
                            BitXor(ByteOrZero(xorIpBytes, i - 1), magicCookieBytes[i])]
          IN  Address(DecStr(ipBytes[1]) \o <<".">> \o DecStr(ipBytes[2]) \o <<".">>
                        \o DecStr(ipBytes[3]) \o <<".">> \o DecStr(ipBytes[4]),
                      port, 4)
        ELSE SkipResult

\* The XOR-MAPPED-ADDRESS branch (lines 112-145); "skip" when neither family
\* branch is taken.
XorMappedAddress(attrValue, attrLength, transactionId) ==
  IF ~InRange(attrValue, 1, 1) \/ ~InRange(attrValue, 2, 2) THEN ThrowResult
  ELSE
    LET family == readUInt8(attrValue, 1)
        xorPort == readUInt16BE(attrValue, 2)
        port == BitXor(xorPort, STUN_MAGIC_COOKIE \div 65536)
    IN  IF family = 1 /\ attrLength >= 8 THEN
          LET xorIpBytes == slice(attrValue, 4, 8)
              magicCookieBytes == UInt32Bytes(STUN_MAGIC_COOKIE)
              ipBytes == [i \in 1..4 |->
                            BitXor(ByteOrZero(xorIpBytes, i - 1), magicCookieBytes[i])]
          IN  Address(DecStr(ipBytes[1]) \o <<".">> \o DecStr(ipBytes[2]) \o <<".">>
                        \o DecStr(ipBytes[3]) \o <<".">> \o DecStr(ipBytes[4]),
                      port, 4)
        ELSE IF family = 2 /\ attrLength >= 20 THEN
          LET xorKey == UInt32Bytes(STUN_MAGIC_COOKIE) \o transactionId
              xorIpBytes == slice(attrValue, 4, 20)
              ipBytes == [i \in 1..16 |->
                            BitXor(ByteOrZero(xorIpBytes, i - 1), xorKey[i])]
          IN  Address(formatIpv6(ipBytes), port, 6)
        ELSE SkipResult

\* The MAPPED-ADDRESS branch (lines 146-161).
MappedAddress(attrValue, attrLength) ==
  IF ~InRange(attrValue, 1, 1) \/ ~InRange(attrValue, 2, 2) THEN ThrowResult
  ELSE
    LET family == readUInt8(attrValue, 1)
        port == readUInt16BE(attrValue, 2)
    IN  IF family = 1 /\ attrLength >= 8 THEN
          Address(ByteStr(attrValue, 4) \o <<".">> \o ByteStr(attrValue, 5) \o <<".">>
                    \o ByteStr(attrValue, 6) \o <<".">> \o ByteStr(attrValue, 7),
                  port, 4)
        ELSE IF family = 2 /\ attrLength >= 20 THEN
          LET ipBytes == slice(attrValue, 4, 20)
          IN  IF formatIpv6Throws(ipBytes) THEN ThrowResult
              ELSE Address(formatIpv6(ipBytes), port, 6)
        ELSE SkipResult

RECURSIVE ParseAttributes(_, _, _, _)
\* The attribute loop (lines 107-170).
ParseAttributes(response, transactionId, offset, endOffset) ==
  IF ~(offset < endOffset /\ offset + 4 <= Len(response)) THEN NullResult
  ELSE
    LET attrType == readUInt16BE(response, offset)
        attrLength == readUInt16BE(response, offset + 2)
        attrValue == slice(response, offset + 4, offset + 4 + attrLength)
        decoded ==
          IF attrType = STUN_ATTR_XOR_MAPPED_ADDRESS
            THEN XorMappedAddress(attrValue, attrLength, transactionId)
          ELSE IF attrType = STUN_ATTR_MAPPED_ADDRESS
            THEN MappedAddress(attrValue, attrLength)
          ELSE SkipResult
        padding == IF attrLength % 4 # 0 THEN 4 - (attrLength % 4) ELSE 0
    IN  IF decoded.kind # "skip" THEN decoded
        ELSE ParseAttributes(response, transactionId,
                             offset + 4 + attrLength + padding, endOffset)

\* Variant of parseBindingResponse: a response whose bytes 8..19 are not the
\* request's transaction id is discarded.
parseBindingResponseChecksId(response, transactionId) ==
  IF Len(response) < 20 THEN NullResult
  ELSE IF readUInt16BE(response, 0) # STUN_BINDING_RESPONSE THEN NullResult
  ELSE IF readUInt32BE(response, 4) # STUN_MAGIC_COOKIE THEN NullResult
  ELSE IF slice(response, 8, 20) # transactionId THEN NullResult
  ELSE ParseAttributes(response, transactionId, 20,
                       20 + readUInt16BE(response, 2))

\* Variant of parseBindingResponse: the magic cookie is not checked.
parseBindingResponseAnyCookie(response, transactionId) ==
  IF Len(response) < 20 THEN NullResult
  ELSE IF readUInt16BE(response, 0) # STUN_BINDING_RESPONSE THEN NullResult
  ELSE ParseAttributes(response, transactionId, 20,
                       20 + readUInt16BE(response, 2))

\* Lines 85-105: the header checks, then the attribute loop.
parseBindingResponse(response, transactionId) ==
  IF Len(response) < 20 THEN NullResult
  ELSE IF readUInt16BE(response, 0) # STUN_BINDING_RESPONSE THEN NullResult
  ELSE IF readUInt32BE(response, 4) # STUN_MAGIC_COOKIE THEN NullResult
  ELSE ParseAttributes(response, transactionId, 20,
                       20 + readUInt16BE(response, 2))

(***************************************************************************)
(* EnvConfig: the PROVIDER connection string.                              *)
(***************************************************************************)
RECURSIVE split(_, _)
\* String.prototype.split(sep) for a one-character separator.
split(s, sep) ==
  IF \A i \in 1..Len(s) : s[i] # sep THEN <<s>>
  ELSE LET k == CHOOSE i \in 1..Len(s) :
                  s[i] = sep /\ \A j \in 1..(i - 1) : s[j] # sep
       IN  <<SubSeq(s, 1, k - 1)>> \o split(SubSeq(s, k + 1, Len(s)), sep)

startsWith(s, prefix) ==
  Len(s) >= Len(prefix) /\ SubSeq(s, 1, Len(prefix)) = prefix

\* A destructured array element that is missing (undefined) or "" is falsy.
Falsy(parts, i) == i > Len(parts) \/ parts[i] = <<>>

NoProvider ==
  [kind |-> "none", backendUrl |-> <<>>, userId |-> <<>>, signature |-> <<>>]
ProviderError(msg) ==
  [kind |-> msg, backendUrl |-> <<>>, userId |-> <<>>, signature |-> <<>>]

parseProvider(providerString) ==
  LET parts == split(providerString, ",")
  IN  IF Falsy(parts, 1) \/ Falsy(parts, 2) \/ Falsy(parts, 3)
        THEN ProviderError("Invalid PROVIDER format")
      ELSE IF ~startsWith(parts[1], <<"h", "t", "t", "p">>)
        THEN ProviderError("backend_url must start with http")
      ELSE [kind |-> "ok", backendUrl |-> parts[1], userId |-> parts[2],
            signature |-> parts[3]]

(***************************************************************************)
(* IpRegistrar: the syntactic validation of an address.                    *)
(***************************************************************************)
HexChars ==
  {"0", "1", "2", "3", "4", "5", "6", "7", "8", "9",
   "a", "b", "c", "d", "e", "f", "A", "B", "C", "D", "E", "F"}
DecChars == {"0", "1", "2", "3", "4", "5", "6", "7", "8", "9"}

\* Variant of Octet: any one to three digits.
OctetAnyDigits(s) ==
  /\ Len(s) \in 1..3
  /\ \A i \in 1..Len(s) : s[i] \in DecChars

\* (?:25[0-5]|2[0-4][0-9]|[01]?[0-9][0-9]?) matched against a whole string.
Octet(s) ==
  /\ Len(s) \in 1..3
  /\ \A i \in 1..Len(s) : s[i] \in DecChars
  /\ Len(s) = 3 =>
       \/ s[1] \in {"0", "1"}
       \/ s[1] = "2" /\ s[2] \in {"0", "1", "2", "3", "4"}
       \/ s[1] = "2" /\ s[2] = "5" /\ s[3] \in {"0", "1", "2", "3", "4", "5"}

\* ipv4Regex.test(ip): four octets with a dot between them.
isValidIPv4(ip) ==
  LET octets == split(ip, ".")
  IN  Len(octets) = 4 /\ \A i \in 1..4 : Octet(octets[i])

\* /^[0-9a-fA-F]{1,4}$/.test(group)
HexGroup(group) ==
  Len(group) \in 1..4 /\ \A i \in 1..Len(group) : group[i] \in HexChars

RECURSIVE DoubleColons(_)
\* The matches of /::/g in s, from the left and without overlap, as the
\* positions of their first colon.
DoubleColons(s) ==
  IF \A i \in 1..(Len(s) - 1) : ~(s[i] = ":" /\ s[i + 1] = ":") THEN <<>>
  ELSE LET k == CHOOSE i \in 1..(Len(s) - 1) :
                  /\ s[i] = ":" /\ s[i + 1] = ":"
                  /\ \A j \in 1..(i - 1) : ~(s[j] = ":" /\ s[j + 1] = ":")
       IN  <<k>> \o [n \in 1..Len(DoubleColons(SubSeq(s, k + 2, Len(s)))) |->
                       DoubleColons(SubSeq(s, k + 2, Len(s)))[n] + k + 1]

isValidIPv6(ip) ==
  IF ip = <<>> \/ \E i \in 1..Len(ip) : ip[i] \notin HexChars \cup {":", "."}
    THEN FALSE
  ELSE IF Len(DoubleColons(ip)) > 1 THEN FALSE
  ELSE IF Len(DoubleColons(ip)) = 1 THEN
    LET k == DoubleColons(ip)[1]
        before == SubSeq(ip, 1, k - 1)
        after == SubSeq(ip, k + 2, Len(ip))
        left == IF before # <<>> THEN split(before, ":") ELSE <<>>
        right == IF after # <<>> THEN split(after, ":") ELSE <<>>
        allGroups == left \o right
    IN  IF Len(left) + Len(right) > 7 THEN FALSE
        ELSE \A i \in 1..Len(allGroups) :
               allGroups[i] = <<>> \/ HexGroup(allGroups[i])
  ELSE
    LET groups == split(ip, ":")
    IN  Len(groups) = 8 /\ \A i \in 1..8 : HexGroup(groups[i])

isValidIp(ip) == isValidIPv4(ip) \/ isValidIPv6(ip)

(***************************************************************************)
(* Inputs of the model.                                                    *)
(***************************************************************************)
\* config.PROVIDER: unset, malformed, a non-http URL, and two valid strings.
Providers ==
  { <<>>,
    <<"h", "t", "t", "p", ":", "/", "/", "b", ",", "u">>,
    <<"f", "t", "p", ":", "/", "/", "b", ",", "u", ",", "s">>,
    <<"h", "t", "t", "p", ":", "/", "/", "b", ",", "u", ",", "s">>,
    <<"h", "t", "t", "p", "s", ":", "/", "/", "b", ",", "u", "@", "y", ",", "s">> }

\* config.PUBLIC_IP: empty (auto-detect) or an operator-supplied address.
PublicIps == { <<>>, <<"2", "0", "3", ".", "0", ".", "1", "1", "3", ".", "7">> }

\* The 12 random bytes of a binding request.
TransactionIds ==
  { [i \in 1..12 |-> 0], [i \in 1..12 |-> 16 * i + 1] }

\* A response header and one attribute, as a STUN server writes them.
ResponseHeader(type, cookie, length, transactionId) ==
  UInt16Bytes(type) \o UInt16Bytes(length) \o UInt32Bytes(cookie) \o transactionId
Attribute(type, length, value) ==
  UInt16Bytes(type) \o UInt16Bytes(length) \o value

\* XOR-MAPPED-ADDRESS value for an IPv4 address, as the server encodes it.
XorValue4(ipBytes, port) ==
  <<0, 1>> \o UInt16Bytes(BitXor(port, STUN_MAGIC_COOKIE \div 65536))
    \o [i \in 1..4 |-> BitXor(ipBytes[i], UInt32Bytes(STUN_MAGIC_COOKIE)[i])]
\* XOR-MAPPED-ADDRESS value for an IPv6 address under a transaction id.
XorValue6(ipBytes, port, transactionId) ==
  <<0, 2>> \o UInt16Bytes(BitXor(port, STUN_MAGIC_COOKIE \div 65536))
    \o [i \in 1..16 |->
          BitXor(ipBytes[i], (UInt32Bytes(STUN_MAGIC_COOKIE) \o transactionId)[i])]

Ipv6Bytes == <<32, 1, 13, 184, 0, 0, 0, 0, 0, 0, 0, 0, 0, 0, 0, 1>>

\* The reply datagrams a discovery attempt may receive for a request that
\* carried transactionId.
Datagrams(transactionId) ==
  { \* XOR-MAPPED-ADDRESS 192.168.1.1:12345
    ResponseHeader(STUN_BINDING_RESPONSE, STUN_MAGIC_COOKIE, 12, transactionId)
      \o Attribute(STUN_ATTR_XOR_MAPPED_ADDRESS, 8, XorValue4(<<192, 168, 1, 1>>, 12345)),
    \* MAPPED-ADDRESS 10.0.0.1:80
    ResponseHeader(STUN_BINDING_RESPONSE, STUN_MAGIC_COOKIE, 12, transactionId)
      \o Attribute(STUN_ATTR_MAPPED_ADDRESS, 8, <<0, 1, 0, 80, 10, 0, 0, 1>>),
    \* XOR-MAPPED-ADDRESS 2001:db8::1 port 443
    ResponseHeader(STUN_BINDING_RESPONSE, STUN_MAGIC_COOKIE, 24, transactionId)
      \o Attribute(STUN_ATTR_XOR_MAPPED_ADDRESS, 20,
                   XorValue6(Ipv6Bytes, 443, transactionId)),
    \* shorter than a header
    <<1, 1, 0, 0>>,
    \* wrong magic cookie
    ResponseHeader(STUN_BINDING_RESPONSE, 0, 12, transactionId)
      \o Attribute(STUN_ATTR_XOR_MAPPED_ADDRESS, 8, XorValue4(<<192, 168, 1, 1>>, 12345)),
    \* a binding response with no attributes
    ResponseHeader(STUN_BINDING_RESPONSE, STUN_MAGIC_COOKIE, 0, transactionId),
    \* an XOR-MAPPED-ADDRESS attribute with an empty value
    ResponseHeader(STUN_BINDING_RESPONSE, STUN_MAGIC_COOKIE, 4, transactionId)
      \o Attribute(STUN_ATTR_XOR_MAPPED_ADDRESS, 0, <<>>),
    \* an XOR-MAPPED-ADDRESS attribute shorter than the address layout
    ResponseHeader(STUN_BINDING_RESPONSE, STUN_MAGIC_COOKIE, 8, transactionId)
      \o Attribute(STUN_ATTR_XOR_MAPPED_ADDRESS, 4, <<0, 1, 17, 43>>),
    \* an XOR-MAPPED-ADDRESS attribute of an unknown family
    ResponseHeader(STUN_BINDING_RESPONSE, STUN_MAGIC_COOKIE, 12, transactionId)
      \o Attribute(STUN_ATTR_XOR_MAPPED_ADDRESS, 8, <<0, 3, 17, 43, 225, 186, 165, 67>>),
    \* MAPPED-ADDRESS 10.0.0.1:80 cut off two bytes before its end
    ResponseHeader(STUN_BINDING_RESPONSE, STUN_MAGIC_COOKIE, 12, transactionId)
      \o Attribute(STUN_ATTR_MAPPED_ADDRESS, 8, <<0, 1, 0, 80, 10, 0>>),
    \* XOR-MAPPED-ADDRESS 192.168.1.1:12345 cut off two bytes before its end
    ResponseHeader(STUN_BINDING_RESPONSE, STUN_MAGIC_COOKIE, 12, transactionId)
      \o Attribute(STUN_ATTR_XOR_MAPPED_ADDRESS, 8,
                   SubSeq(XorValue4(<<192, 168, 1, 1>>, 12345), 1, 6)) }

\* An argument of a function applied on its own: the function, its argument
\* (and transaction id), and what the argument was built from.
FnInput(fn, arg, transactionId, from, port) ==
  [fn |-> fn, arg |-> arg, transactionId |-> transactionId, from |-> from,
   port |-> port, attributes |-> <<>>, truncated |-> <<>>]

\* Buffers for parseBindingResponse: four message types, four cookies, four
\* attribute lists, whole or cut to 0, 19 or 20 bytes.
HeaderTypes == {STUN_BINDING_RESPONSE, STUN_BINDING_REQUEST, 273, 256}
HeaderCookies ==
  {STUN_MAGIC_COOKIE, 0, STUN_MAGIC_COOKIE + 1, STUN_MAGIC_COOKIE - 16777216}
Bodies(transactionId) ==
  { <<>>,
    Attribute(STUN_ATTR_XOR_MAPPED_ADDRESS, 8, XorValue4(<<192, 168, 1, 1>>, 12345)),
    Attribute(STUN_ATTR_MAPPED_ADDRESS, 8, <<0, 1, 0, 80, 10, 0, 0, 1>>),
    Attribute(STUN_ATTR_XOR_MAPPED_ADDRESS, 20,
              XorValue6(Ipv6Bytes, 443, transactionId)) }
Cuts == {0, 19, 20, 64}
HeaderInputs ==
  { FnInput("parseBindingResponse",
            slice(ResponseHeader(type, cookie, Len(body), t) \o body, 0, n),
            t, <<>>, 0) :
      type \in HeaderTypes, cookie \in HeaderCookies,
      body \in UNION {Bodies(tid) : tid \in TransactionIds},
      n \in Cuts, t \in TransactionIds }

\* Binding responses whose one attribute is the XOR-MAPPED-ADDRESS of an IPv4
\* address and a port.
AddressBytes == {0, 33, 192, 255}
Ports == {0, 8466, 12345, 65535}
XorInputs ==
  { FnInput("parseBindingResponse",
            ResponseHeader(STUN_BINDING_RESPONSE, STUN_MAGIC_COOKIE, 12, t)
              \o Attribute(STUN_ATTR_XOR_MAPPED_ADDRESS, 8, XorValue4(ip, port)),
            t, ip, port) :
      ip \in [1..4 -> AddressBytes], port \in Ports, t \in TransactionIds }

\* The attributes a response is put together from, as written on the wire
\* (value padded to a multiple of 4): two of a type the parser does not know,
\* addresses of both types and families, and address attributes that do not
\* hold an address (unknown family, value of 4 bytes, empty value).
MaxAttributes == 3
AttributeNames == {"U5", "U0", "X4", "M4", "X6", "M6", "XF", "XS", "X0"}
Wire(name, transactionId) ==
  CASE name = "U5" -> Attribute(32802, 5, <<115, 116, 117, 110, 100>>) \o <<0, 0, 0>>
    [] name = "U0" -> Attribute(32808, 0, <<>>)
    [] name = "X4" -> Attribute(STUN_ATTR_XOR_MAPPED_ADDRESS, 8,
                                XorValue4(<<192, 168, 1, 1>>, 12345))
    [] name = "M4" -> Attribute(STUN_ATTR_MAPPED_ADDRESS, 8, <<0, 1, 0, 80, 10, 0, 0, 1>>)
    [] name = "X6" -> Attribute(STUN_ATTR_XOR_MAPPED_ADDRESS, 20,
                                XorValue6(Ipv6Bytes, 443, transactionId))
    [] name = "M6" -> Attribute(STUN_ATTR_MAPPED_ADDRESS, 20, <<0, 2, 0, 80>> \o Ipv6Bytes)
    [] name = "XF" -> Attribute(STUN_ATTR_XOR_MAPPED_ADDRESS, 8,
                                <<0, 3, 17, 43, 225, 186, 165, 67>>)
    [] name = "XS" -> Attribute(STUN_ATTR_XOR_MAPPED_ADDRESS, 4, <<0, 1, 17, 43>>)
    [] name = "X0" -> Attribute(STUN_ATTR_XOR_MAPPED_ADDRESS, 0, <<>>)
AttributeLists == UNION { [1..n -> AttributeNames] : n \in 1..MaxAttributes }
AttributesInputs ==
  { LET body == Join([i \in 1..Len(names) |-> Wire(names[i], t)], <<>>)
    IN  [FnInput("parseBindingResponse",
                 ResponseHeader(STUN_BINDING_RESPONSE, STUN_MAGIC_COOKIE,
                                Len(body), t) \o body,
                 t, <<>>, 0) EXCEPT !.attributes = names] :
      names \in AttributeLists, t \in TransactionIds }

\* Responses of one address attribute of which the buffer holds only the
\* first `kept` bytes (attribute header included), under a header that
\* declares a message length of `declared` bytes: the attribute header
\* alone, an IPv4 attribute or an IPv6 attribute.
AddressAttributes == {"X4", "M4", "X6", "M6"}
TruncatedInputs ==
  { LET wire == Wire(name, t)
    IN  [FnInput("parseBindingResponse",
                 ResponseHeader(STUN_BINDING_RESPONSE, STUN_MAGIC_COOKIE,
                                declared, t) \o slice(wire, 0, kept),
                 t, <<>>, 0)
           EXCEPT !.truncated = <<readUInt16BE(wire, 0),
                                  Min(kept, Len(wire)), declared,
                                  readUInt16BE(wire, 2)>>] :
      name \in AddressAttributes, t \in TransactionIds,
      kept \in 4..24, declared \in {4, 12, 24} }

\* A datagram with its bytes 8..19 (as far as it has them) replaced by id.
WithHeaderId(msg, id) ==
  [i \in 1..Len(msg) |-> IF i \in 9..20 THEN id[i - 8] ELSE msg[i]]
\* Transaction ids a reply header may carry: those of the requests and one
\* that no request carries.
HeaderIds == TransactionIds \cup { [i \in 1..12 |-> 255] }
\* The replies of Datagrams under every header id, given to the parser with
\* the id of the request.
ForeignIdInputs ==
  { FnInput("parseBindingResponse", WithHeaderId(msg, id), t, <<>>, 0) :
      msg \in UNION { Datagrams(tid) : tid \in TransactionIds },
      id \in HeaderIds, t \in TransactionIds }

\* Strings for parseProvider: one to four comma-separated parts, the first
\* from Urls, the second from UserIds, the third from Signatures.
Urls ==
  { <<>>,
    <<"h", "t", "t", "p", ":", "/", "/", "b">>,
    <<"h", "t", "t", "p", "s", ":", "/", "/", "b">>,
    <<"f", "t", "p", ":", "/", "/", "b">>,
    <<"h", "t", "t", "p", "x", ":", "/", "/", "b">>,
    <<"h", "t", "t", "p">>,
    <<"b">> }
UserIds == { <<>>, <<"u">>, <<"u", "@", "y">> }
Signatures == { <<>>, <<"s">>, <<"s", "=">> }
ProviderParts ==
  { <<url>> : url \in Urls }
    \cup { <<url, userId>> : url \in Urls, userId \in UserIds }
    \cup { <<url, userId, signature>> :
             url \in Urls, userId \in UserIds, signature \in Signatures }
    \cup { <<url, userId, signature, <<"x">> >> :
             url \in Urls, userId \in UserIds, signature \in Signatures }
ProviderInputs ==
  { FnInput("parseProvider", Join(parts, <<",">>), <<>>, parts, 0) :
      parts \in ProviderParts }

\* Strings for isValidIPv4: four segments from Segments with dots between
\* them, and one, two, three and five segments from FewSegments.
Segments ==
  { <<>>,
    <<"0">>,
    <<"0", "0">>,
    <<"0", "0", "0", "0">>,
    <<"0", "9", "9">>,
    <<"2", "4", "9">>,
    <<"2", "5", "5">>,
    <<"2", "5", "6">>,
    <<"3", "0", "0">>,
    <<"1", "a">> }
FewSegments == { <<>>, <<"1">>, <<"2", "5", "5">> }
Ipv4Parts ==
  [1..4 -> Segments]
    \cup UNION { [1..n -> FewSegments] : n \in {1, 2, 3, 5} }
Ipv4Inputs ==
  { FnInput("isValidIPv4", Join(parts, <<".">>), <<>>, parts, 0) :
      parts \in Ipv4Parts }

\* Strings for isValidIPv6: up to MaxTokens tokens one after the other, and
\* lists of groups "1" with or without one "::" between them.
MaxTokens == 5
Tokens ==
  { <<"1">>, <<"a", "F", "0", "9">>, <<"1", "2", "3", "4", "5">>, <<"g">>,
    <<":">>, <<".">> }
Ones(n) == Join([i \in 1..n |-> <<"1">>], <<":">>)
Ipv6Strings ==
  { Join(tokens, <<>>) : tokens \in UNION { [1..n -> Tokens] : n \in 0..MaxTokens } }
    \cup { Ones(n) : n \in 6..9 }
    \cup { Ones(n) \o <<":", ":">> \o Ones(m) : n \in 0..8, m \in 0..8 }
Ipv6Inputs ==
  { FnInput("isValidIPv6", ip, <<>>, <<>>, 0) : ip \in Ipv6Strings }

(***************************************************************************)
(* State.                                                                  *)
(***************************************************************************)
VARIABLES
  PROVIDER,     \* config.PROVIDER
  PUBLIC_IP,    \* config.PUBLIC_IP
  pc,           \* where main is: "start", the call it awaits, "exit", "crashed"
  sleepFor,     \* the interval of the sleep main awaits or last awaited
  initialized,  \* main's local `initialized`
  provider,     \* main's local `provider`
  certState,    \* main's local `certState`
  route,        \* main's local `route`
  disk,         \* the certificate files loadCertificateState reads
  publicIp,     \* `publicIp` / `currentIp` of the present attempt or cycle
  regArg,       \* the route as the last registerRoutes call received it
  steps,        \* the calls of the present attempt or cycle, with results
  ipBefore,     \* route.ip as the present attempt or cycle found it
  attempt,      \* the closure of the present queryStunServer call
  input,        \* the argument of a function applied on its own
  output        \* <<>>, or <<r>> for the result r of that function

vars ==
  <<PROVIDER, PUBLIC_IP, pc, sleepFor, initialized, provider, certState, route,
    disk, publicIp, regArg, steps, ipBefore, attempt, input, output>>

\* CertificateState; expiresIn stands for expiresAt - Date.now(), counted in
\* sleeps and cut off at 0.
NoCert == [present |-> FALSE, serial |-> 0, expiresIn |-> 0]
Certificate(serial, expiresIn) ==
  [present |-> TRUE, serial |-> serial, expiresIn |-> expiresIn]
\* The passing of one sleep, seen from a certificate.
Aged(c) == IF c.present /\ c.expiresIn > 0 THEN [c EXCEPT !.expiresIn = @ - 1] ELSE c

needsRenewal(expiresIn) == expiresIn < 1
loadCertificateState == disk

NoRoute ==
  [present |-> FALSE, ip |-> <<>>, port |-> 0, priority |-> 0, label |-> "",
   healthCheck |-> ""]
healthCheck == "/.well-known/health"
buildRoute(ip, port, priority, label, hc) ==
  [present |-> TRUE, ip |-> ip, port |-> port, priority |-> priority,
   label |-> label, healthCheck |-> hc]

\* The closure of queryStunServer: which server, its socket, its timer, its
\* promise, the send callback, the transaction id, the request datagram
\* handed to socket.send and the id handed to parseBindingResponse; `failed`
\* is what detectPublicIpViaStun has logged so far: the servers whose attempt
\* ended in its catch block.
NoAttempt ==
  [server |-> 0, socket |-> "none", timer |-> "none", promise |-> "none",
   send |-> "none", transactionId |-> <<>>, request |-> <<>>,
   parsedWith |-> <<>>, failed |-> <<>>]
\* queryStunServer(STUN_SERVERS[k]) up to its first await (resolveHost).
Query(k) ==
  [server |-> k, socket |-> "none", timer |-> "none", promise |-> "pending",
   send |-> "none", transactionId |-> <<>>, request |-> <<>>,
   parsedWith |-> <<>>, failed |-> <<>>]

\* No function is applied on its own while main runs.
NoInput == FnInput("none", <<>>, <<>>, <<>>, 0)

\* The log of an attempt or cycle.
Call(st, op) == Append(st, [op |-> op, res |-> "pending"])
Done(st, res) == [st EXCEPT ![Len(st)].res = res]
Did(st, op, res) == Append(st, [op |-> op, res |-> res])

Init ==
  /\ PROVIDER \in Providers
  /\ PUBLIC_IP \in PublicIps
  /\ pc = "start"
  /\ sleepFor = "none"
  /\ initialized = FALSE
  /\ provider = NoProvider
  /\ certState = NoCert
  /\ route = NoRoute
  /\ disk \in {NoCert} \cup {Certificate(0, v) : v \in 0..MaxValidity}
  /\ publicIp = <<>>
  /\ regArg = NoRoute
  /\ steps = <<>>
  /\ ipBefore = <<>>
  /\ attempt = NoAttempt
  /\ input = NoInput
  /\ output = <<>>

(***************************************************************************)
(* main: the code between two awaits, as the continuations of the awaits.  *)
(***************************************************************************)
\* Variant of Catch: the error is thrown on, and main().catch ends the process.
CatchRethrows(st, att) ==
  /\ pc' = "exit"
  /\ steps' = st
  /\ attempt' = att
  /\ UNCHANGED <<sleepFor, initialized, route, publicIp, regArg>>

\* The catch block of the initialization loop (lines 120-125).
Catch(st, att) ==
  /\ pc' = "sleep"
  /\ sleepFor' = "ERROR_RETRY_INTERVAL"
  /\ steps' = st
  /\ attempt' = att
  /\ UNCHANGED <<initialized, route, publicIp, regArg>>

\* The end of a refresh cycle, by its last statement or by its catch block
\* (lines 161-163), and the sleep at the top of the loop (line 132).
CycleEnd(st, att) ==
  /\ pc' = "sleep"
  /\ sleepFor' = "REFRESH_INTERVAL"
  /\ steps' = st
  /\ attempt' = att
  /\ UNCHANGED <<initialized, route, publicIp, regArg>>

\* An uncaught exception in a socket or timer callback ends the process.
Crash(att) ==
  /\ pc' = "crashed"
  /\ attempt' = att
  /\ UNCHANGED <<sleepFor, initialized, route, publicIp, regArg, steps>>

\* Lines 97-108: build the route and call registerRoutes.
InitRegister(ip, st, att) ==
  /\ publicIp' = ip
  /\ route' = buildRoute(ip, TARGET_PORT, ROUTE_PRIORITY, "agent", healthCheck)
  /\ regArg' = route'
  /\ pc' = "registerRoutes"
  /\ steps' = Call(st, "registerRoutes")
  /\ attempt' = att
  /\ UNCHANGED <<initialized, sleepFor>>

\* Variant of RunRegister: the cycle builds the route anew, under another
\* label.
RunRegisterRebuildsRoute(ip, st, att) ==
  /\ publicIp' = ip
  /\ route' = buildRoute(ip, TARGET_PORT, ROUTE_PRIORITY, "refresh", healthCheck)
  /\ regArg' = route'
  /\ pc' = "registerRoutes"
  /\ steps' = Call(st, "registerRoutes")
  /\ attempt' = att
  /\ UNCHANGED <<initialized, sleepFor>>

\* Variant of RunRegister: the route is registered as it was, route.ip not
\* updated.
RunRegisterStaleIp(ip, st, att) ==
  /\ publicIp' = ip
  /\ route' = route
  /\ regArg' = route'
  /\ pc' = "registerRoutes"
  /\ steps' = Call(st, "registerRoutes")
  /\ attempt' = att
  /\ UNCHANGED <<initialized, sleepFor>>

\* Variant of RunRegister: registerRoutes is called only when the address
\* changed.
RunRegisterOnlyOnChange(ip, st, att) ==
  /\ publicIp' = ip
  /\ IF route.present /\ ip # route.ip
       THEN /\ route' = [route EXCEPT !.ip = ip]
            /\ regArg' = route'
            /\ pc' = "registerRoutes"
            /\ steps' = Call(st, "registerRoutes")
            /\ attempt' = att
            /\ UNCHANGED <<initialized, sleepFor>>
       ELSE /\ pc' = "sleep"
            /\ sleepFor' = "REFRESH_INTERVAL"
            /\ steps' = st
            /\ attempt' = att
            /\ UNCHANGED <<initialized, route, regArg>>

\* Lines 145-151: update route.ip if it changed and call registerRoutes.
RunRegister(ip, st, att) ==
  /\ publicIp' = ip
  /\ route' = IF route.present /\ ip # route.ip THEN [route EXCEPT !.ip = ip]
              ELSE route
  /\ IF route.present
       THEN /\ regArg' = route'
            /\ pc' = "registerRoutes"
            /\ steps' = Call(st, "registerRoutes")
            /\ attempt' = att
            /\ UNCHANGED <<initialized, sleepFor>>
       ELSE /\ pc' = "sleep"
            /\ sleepFor' = "REFRESH_INTERVAL"
            /\ steps' = st
            /\ attempt' = att
            /\ UNCHANGED <<initialized, regArg>>

\* detectPublicIp() called: detectPublicIpViaStun starts with the first server.
DetectStart(st) ==
  /\ pc' = "detectPublicIp"
  /\ attempt' = Query(1)
  /\ steps' = Call(st, "detectPublicIp")
  /\ publicIp' = <<>>
  /\ UNCHANGED <<initialized, sleepFor, route, regArg>>

\* Line 94: config.PUBLIC_IP || (await detectPublicIp()).
InitAddress(st) ==
  IF PUBLIC_IP # <<>> THEN InitRegister(PUBLIC_IP, Did(st, "PUBLIC_IP", "ok"), attempt)
  ELSE DetectStart(st)

\* Variant of RunAddress: a cycle detects the address whatever PUBLIC_IP is.
RunAddressDetects(st) == DetectStart(st)

\* Line 143: config.PUBLIC_IP || (await detectPublicIp()).
RunAddress(st) ==
  IF PUBLIC_IP # <<>> THEN RunRegister(PUBLIC_IP, Did(st, "PUBLIC_IP", "ok"), attempt)
  ELSE DetectStart(st)

\* Lines 61-65: a new initialization attempt calls checkBackendVersion.
BeginAttempt ==
  /\ pc' = "checkBackendVersion"
  /\ steps' = Call(<<>>, "checkBackendVersion")
  /\ publicIp' = <<>>
  /\ UNCHANGED <<sleepFor, initialized, route, regArg, attempt>>

\* Lines 37-44: the configuration check; process.exit(1) on a missing PROVIDER
\* and, by main().catch, on one parseProvider rejects.
Start ==
  /\ pc = "start"
  /\ IF PROVIDER = <<>> \/ parseProvider(PROVIDER).kind # "ok"
       THEN /\ pc' = "exit"
            /\ UNCHANGED <<sleepFor, initialized, provider, route, publicIp,
                           regArg, steps, attempt>>
       ELSE /\ provider' = parseProvider(PROVIDER)
            /\ BeginAttempt
  /\ ipBefore' = route.ip
  /\ UNCHANGED <<input, output, PROVIDER, PUBLIC_IP, certState, disk>>

\* Variant of VersionDone: versionInfo.compatible is not looked at.
VersionDoneIgnoresCompatible ==
  /\ pc = "checkBackendVersion"
  /\ \E versionInfo \in {"compatible", "incompatible"} :
       /\ pc' = "checkBackendHealth"
       /\ steps' = Call(Done(steps, IF versionInfo = "compatible" THEN "ok" ELSE "fail"),
                        "checkBackendHealth")
       /\ UNCHANGED <<sleepFor, initialized, route, publicIp, regArg, attempt>>
  /\ UNCHANGED <<input, output, PROVIDER, PUBLIC_IP, ipBefore, provider, certState, disk>>

\* Lines 65-74: checkBackendVersion returns.
VersionDone ==
  /\ pc = "checkBackendVersion"
  /\ \E versionInfo \in {"compatible", "incompatible", "throws"} :
       IF versionInfo = "compatible"
         THEN /\ pc' = "checkBackendHealth"
              /\ steps' = Call(Done(steps, "ok"), "checkBackendHealth")
              /\ UNCHANGED <<sleepFor, initialized, route, publicIp, regArg, attempt>>
         ELSE Catch(Done(steps, "fail"), attempt)
  /\ UNCHANGED <<input, output, PROVIDER, PUBLIC_IP, ipBefore, provider, certState, disk>>

\* Lines 74-94: checkBackendHealth returns; the certificate is loaded.
HealthDone ==
  /\ pc = "checkBackendHealth"
  /\ \E backendReady \in {"ready", "notReady", "throws"} :
       IF backendReady = "ready"
         THEN /\ certState' = loadCertificateState
              /\ IF ~certState'.present \/ needsRenewal(certState'.expiresIn)
                   THEN /\ pc' = "ensureKeyPair"
                        /\ steps' = Call(Did(Done(steps, "ok"), "loadCertificateState",
                                             "renew"), "ensureKeyPair")
                        /\ UNCHANGED <<sleepFor, initialized, route, publicIp,
                                       regArg, attempt>>
                   ELSE InitAddress(Did(Done(steps, "ok"), "loadCertificateState", "ok"))
         ELSE /\ Catch(Done(steps, "fail"), attempt)
              /\ UNCHANGED certState
  /\ UNCHANGED <<input, output, PROVIDER, PUBLIC_IP, ipBefore, provider, disk>>

\* Lines 87-88: ensureKeyPair returns during initialization.
InitKeyPairDone ==
  /\ pc = "ensureKeyPair" /\ ~initialized
  /\ \E ok \in BOOLEAN :
       IF ok
         THEN /\ pc' = "requestCertificate"
              /\ steps' = Call(Done(steps, "ok"), "requestCertificate")
              /\ UNCHANGED <<sleepFor, initialized, route, publicIp, regArg, attempt>>
         ELSE Catch(Done(steps, "fail"), attempt)
  /\ UNCHANGED <<input, output, PROVIDER, PUBLIC_IP, ipBefore, provider, certState, disk>>

\* Lines 88-94: requestCertificate returns during initialization.
InitCertificateDone ==
  /\ pc = "requestCertificate" /\ ~initialized
  /\ \/ \E v \in 0..MaxValidity :
          /\ certState' = Certificate((disk.serial + 1) % SerialMod, v)
          /\ disk' = certState'
          /\ InitAddress(Done(steps, "ok"))
     \/ /\ Catch(Done(steps, "fail"), attempt)
        /\ UNCHANGED <<certState, disk>>
  /\ UNCHANGED <<input, output, PROVIDER, PUBLIC_IP, ipBefore, provider>>

\* Variant of InitRegisterDone: result.success is not looked at.
InitRegisterDoneIgnoresResult ==
  /\ pc = "registerRoutes" /\ ~initialized
  /\ \E result \in {"success", "failure"} :
       /\ initialized' = TRUE
       /\ pc' = "sleep"
       /\ sleepFor' = "REFRESH_INTERVAL"
       /\ steps' = Done(steps, IF result = "success" THEN "ok" ELSE "fail")
       /\ UNCHANGED <<route, publicIp, regArg, attempt>>
  /\ UNCHANGED <<input, output, PROVIDER, PUBLIC_IP, ipBefore, provider, certState, disk>>

\* Lines 108-126: registerRoutes returns during initialization.
InitRegisterDone ==
  /\ pc = "registerRoutes" /\ ~initialized
  /\ \E result \in {"success", "failure", "throws"} :
       IF result = "success"
         THEN /\ initialized' = TRUE
              /\ pc' = "sleep"
              /\ sleepFor' = "REFRESH_INTERVAL"
              /\ steps' = Done(steps, "ok")
              /\ UNCHANGED <<route, publicIp, regArg, attempt>>
         ELSE Catch(Done(steps, "fail"), attempt)
  /\ UNCHANGED <<input, output, PROVIDER, PUBLIC_IP, ipBefore, provider, certState, disk>>

\* Line 124: the error-retry sleep ends; the loop starts the chain again.
InitSleepDone ==
  /\ pc = "sleep" /\ ~initialized
  /\ BeginAttempt
  /\ certState' = Aged(certState)
  /\ disk' = Aged(disk)
  /\ ipBefore' = route.ip
  /\ UNCHANGED <<input, output, PROVIDER, PUBLIC_IP, provider>>

\* Variant of RunSleepDone: the cycle goes to the address step at once.
RunSleepDoneAddressFirst ==
  /\ pc = "sleep" /\ initialized
  /\ certState' = Aged(certState)
  /\ disk' = Aged(disk)
  /\ RunAddress(<<>>)
  /\ ipBefore' = route.ip
  /\ UNCHANGED <<input, output, PROVIDER, PUBLIC_IP, provider>>

\* Lines 132-143: the refresh sleep ends; the cycle checks the certificate.
RunSleepDone ==
  /\ pc = "sleep" /\ initialized
  /\ certState' = Aged(certState)
  /\ disk' = Aged(disk)
  /\ IF certState'.present /\ needsRenewal(certState'.expiresIn)
       THEN /\ pc' = "ensureKeyPair"
            /\ steps' = Call(<<[op |-> "needsRenewal", res |-> "renew"]>>,
                             "ensureKeyPair")
            /\ publicIp' = <<>>
            /\ UNCHANGED <<sleepFor, initialized, route, regArg, attempt>>
       ELSE RunAddress(<<[op |-> "needsRenewal", res |-> "ok"]>>)
  /\ ipBefore' = route.ip
  /\ UNCHANGED <<input, output, PROVIDER, PUBLIC_IP, provider>>

\* Lines 138-139: ensureKeyPair returns in a refresh cycle.
RunKeyPairDone ==
  /\ pc = "ensureKeyPair" /\ initialized
  /\ \E ok \in BOOLEAN :
       IF ok
         THEN /\ pc' = "requestCertificate"
              /\ steps' = Call(Done(steps, "ok"), "requestCertificate")
              /\ UNCHANGED <<sleepFor, initialized, route, publicIp, regArg, attempt>>
         ELSE CycleEnd(Done(steps, "fail"), attempt)
  /\ UNCHANGED <<input, output, PROVIDER, PUBLIC_IP, ipBefore, provider, certState, disk>>

\* Variant of RunCertificateDone: after a failed request the cycle goes on
\* to the address step.
RunCertificateDoneGoesOn ==
  /\ pc = "requestCertificate" /\ initialized
  /\ \/ \E v \in 0..MaxValidity :
          /\ certState' = Certificate((disk.serial + 1) % SerialMod, v)
          /\ disk' = certState'
          /\ RunAddress(Done(steps, "ok"))
     \/ /\ RunAddress(Done(steps, "fail"))
        /\ UNCHANGED <<certState, disk>>
  /\ UNCHANGED <<input, output, PROVIDER, PUBLIC_IP, ipBefore, provider>>

\* Variant of RunCertificateDone: a failed request drops the held certificate.
RunCertificateDoneDropsOnFailure ==
  /\ pc = "requestCertificate" /\ initialized
  /\ \/ \E v \in 0..MaxValidity :
          /\ certState' = Certificate((disk.serial + 1) % SerialMod, v)
          /\ disk' = certState'
          /\ RunAddress(Done(steps, "ok"))
     \/ /\ CycleEnd(Done(steps, "fail"), attempt)
        /\ certState' = NoCert
        /\ UNCHANGED disk
  /\ UNCHANGED <<input, output, PROVIDER, PUBLIC_IP, ipBefore, provider>>

\* Lines 139-143: requestCertificate returns in a refresh cycle.
RunCertificateDone ==
  /\ pc = "requestCertificate" /\ initialized
  /\ \/ \E v \in 0..MaxValidity :
          /\ certState' = Certificate((disk.serial + 1) % SerialMod, v)
          /\ disk' = certState'
          /\ RunAddress(Done(steps, "ok"))
     \/ /\ CycleEnd(Done(steps, "fail"), attempt)
        /\ UNCHANGED <<certState, disk>>
  /\ UNCHANGED <<input, output, PROVIDER, PUBLIC_IP, ipBefore, provider>>

\* Variant of RunRegisterDone: a failed registration puts the old ip back.
RunRegisterDoneRollsBack ==
  /\ pc = "registerRoutes" /\ initialized
  /\ \E result \in {"success", "failure", "throws"} :
       /\ pc' = "sleep"
       /\ sleepFor' = "REFRESH_INTERVAL"
       /\ steps' = Done(steps, IF result = "success" THEN "ok" ELSE "fail")
       /\ route' = IF result = "success" THEN route ELSE [route EXCEPT !.ip = ipBefore]
       /\ UNCHANGED <<initialized, publicIp, regArg, attempt>>
  /\ UNCHANGED <<input, output, PROVIDER, PUBLIC_IP, ipBefore, provider, certState, disk>>

\* Lines 151-164: registerRoutes returns in a refresh cycle.
RunRegisterDone ==
  /\ pc = "registerRoutes" /\ initialized
  /\ \E result \in {"success", "failure", "throws"} :
       CycleEnd(Done(steps, IF result = "success" THEN "ok" ELSE "fail"), attempt)
  /\ UNCHANGED <<input, output, PROVIDER, PUBLIC_IP, ipBefore, provider, certState, disk>>

(***************************************************************************)
(* detectPublicIpViaStun and queryStunServer.                              *)
(***************************************************************************)
\* clearTimeout(timer) and socket.close(); close throws on a socket that is
\* not open.
clearTimeout(t) == IF t = "armed" THEN "cleared" ELSE t
closeThrows(att) == att.socket # "open"

\* Nothing awaits the promise any more: resolve and reject do nothing.
Ignored(att) ==
  /\ attempt' = att
  /\ UNCHANGED <<pc, sleepFor, initialized, route, publicIp, regArg, steps>>

\* IpRegistrar's detectPublicIp hands main the address detectPublicIpViaStun
\* returned.
detectPublicIp(ip) == ip

\* Lines 257-259 and main's continuation: the attempt resolved with an address.
Detected(ip, att) ==
  IF initialized THEN RunRegister(detectPublicIp(ip), Done(steps, "ok"), att)
  ELSE InitRegister(detectPublicIp(ip), Done(steps, "ok"), att)

\* Variant of Rejected: the first failed attempt ends the call with the error.
RejectedThrowsAtOnce(att) ==
  LET thrown == [att EXCEPT !.failed = Append(att.failed, att.server)]
  IN  IF initialized THEN CycleEnd(Done(steps, "fail"), thrown)
      ELSE Catch(Done(steps, "fail"), thrown)

\* Variant of Rejected: the loop passes over the server after the failed one.
RejectedSkipsServer(att) ==
  LET failed == Append(att.failed, att.server)
      thrown == [att EXCEPT !.failed = failed]
  IN  IF att.server + 1 < Len(STUN_SERVERS)
        THEN /\ attempt' = [Query(att.server + 2) EXCEPT !.failed = failed]
             /\ UNCHANGED <<pc, sleepFor, initialized, route, publicIp, regArg, steps>>
      ELSE IF initialized THEN CycleEnd(Done(steps, "fail"), thrown)
      ELSE Catch(Done(steps, "fail"), thrown)

\* Lines 255-267: the attempt rejected; the loop goes to the next server, and
\* past the last one throws, to main's catch blocks.
Rejected(att) ==
  LET failed == Append(att.failed, att.server)
      thrown == [att EXCEPT !.failed = failed]
  IN  IF att.server < Len(STUN_SERVERS)
        THEN /\ attempt' = [Query(att.server + 1) EXCEPT !.failed = failed]
             /\ UNCHANGED <<pc, sleepFor, initialized, route, publicIp, regArg, steps>>
      ELSE IF initialized THEN CycleEnd(Done(steps, "fail"), thrown)
      ELSE Catch(Done(steps, "fail"), thrown)

\* resolve(...) and reject(...) of the attempt's promise.
resolve(ip, att) ==
  IF att.promise = "pending" THEN Detected(ip, [att EXCEPT !.promise = "resolved"])
  ELSE Ignored(att)
reject(att) ==
  IF att.promise = "pending" THEN Rejected([att EXCEPT !.promise = "rejected"])
  ELSE Ignored(att)

\* Lines 205-245: resolveHost returns; on success the socket is created, the
\* timer armed, the handlers installed and the request sent.
ResolveHostDone ==
  /\ pc = "detectPublicIp"
  /\ attempt.promise = "pending" /\ attempt.socket = "none"
  /\ \/ \E transactionId \in TransactionIds :
          /\ attempt' = [attempt EXCEPT !.socket = "open", !.timer = "armed",
                                        !.send = "pending",
                                        !.transactionId = transactionId,
                                        !.request =
                                          createBindingRequest(transactionId)]
          /\ UNCHANGED <<pc, sleepFor, initialized, route, publicIp, regArg, steps>>
     \/ reject(attempt)
  /\ UNCHANGED <<input, output, PROVIDER, PUBLIC_IP, ipBefore, provider, certState, disk>>

\* Variant of OnMessage: the timer is not cleared.
OnMessageKeepsTimer ==
  /\ attempt.socket = "open"
  /\ \E msg \in Datagrams(attempt.transactionId) :
       LET closed == [attempt EXCEPT !.socket = "closed",
                                     !.parsedWith = attempt.transactionId]
           result == parseBindingResponse(msg, attempt.transactionId)
       IN  IF result.kind = "throw" THEN Crash(closed)
           ELSE IF result.kind = "addr" THEN resolve(result.ip, closed)
           ELSE reject(closed)
  /\ UNCHANGED <<input, output, PROVIDER, PUBLIC_IP, ipBefore, provider, certState, disk>>

\* Variant of Deliver: the parser is given the id of TransactionIds that is
\* all zero, whatever the request carried.
DeliverZeroId(msg) ==
  /\ attempt.socket = "open"
  /\ LET zero == [i \in 1..12 |-> 0]
         cleared == [attempt EXCEPT !.timer = clearTimeout(@)]
         closed == [cleared EXCEPT !.socket = "closed", !.parsedWith = zero]
         result == parseBindingResponse(msg, zero)
     IN  IF closeThrows(cleared) THEN Crash(cleared)
         ELSE IF result.kind = "throw" THEN Crash(closed)
         ELSE IF result.kind = "addr" THEN resolve(result.ip, closed)
         ELSE reject(closed)
  /\ UNCHANGED <<input, output, PROVIDER, PUBLIC_IP, ipBefore, provider, certState, disk>>

\* Lines 221-231: the 'message' handler, called with the datagram msg.
Deliver(msg) ==
  /\ attempt.socket = "open"
  /\ LET cleared == [attempt EXCEPT !.timer = clearTimeout(@)]
         closed == [cleared EXCEPT !.socket = "closed",
                                   !.parsedWith = attempt.transactionId]
         result == parseBindingResponse(msg, attempt.transactionId)
     IN  IF closeThrows(cleared) THEN Crash(cleared)
         ELSE IF result.kind = "throw" THEN Crash(closed)
         ELSE IF result.kind = "addr" THEN resolve(result.ip, closed)
         ELSE reject(closed)
  /\ UNCHANGED <<input, output, PROVIDER, PUBLIC_IP, ipBefore, provider, certState, disk>>

\* A datagram arrives on the open socket.
OnMessage ==
  /\ attempt.socket = "open"
  /\ \E msg \in Datagrams(attempt.transactionId) : Deliver(msg)

\* Lines 233-237: the 'error' handler.
OnError ==
  /\ attempt.socket = "open"
  /\ LET cleared == [attempt EXCEPT !.timer = clearTimeout(@)]
     IN  IF closeThrows(cleared) THEN Crash(cleared)
         ELSE reject([cleared EXCEPT !.socket = "closed"])
  /\ UNCHANGED <<input, output, PROVIDER, PUBLIC_IP, ipBefore, provider, certState, disk>>

\* Lines 239-245: the callback of socket.send.
OnSend ==
  /\ attempt.send = "pending" /\ attempt.socket = "open"
  /\ \E err \in BOOLEAN :
       LET called == [attempt EXCEPT !.send = "done"]
           cleared == [called EXCEPT !.timer = clearTimeout(@)]
       IN  IF ~err THEN Ignored(called)
           ELSE IF closeThrows(cleared) THEN Crash(cleared)
           ELSE reject([cleared EXCEPT !.socket = "closed"])
  /\ UNCHANGED <<input, output, PROVIDER, PUBLIC_IP, ipBefore, provider, certState, disk>>

\* Lines 216-219: the timer fires.
OnTimeout ==
  /\ attempt.timer = "armed"
  /\ LET fired == [attempt EXCEPT !.timer = "fired"]
     IN  IF closeThrows(fired) THEN Crash(fired)
         ELSE reject([fired EXCEPT !.socket = "closed"])
  /\ UNCHANGED <<input, output, PROVIDER, PUBLIC_IP, ipBefore, provider, certState, disk>>

Next ==
  \/ Start
  \/ VersionDone
  \/ HealthDone
  \/ InitKeyPairDone
  \/ InitCertificateDone
  \/ InitRegisterDone
  \/ InitSleepDone
  \/ RunSleepDone
  \/ RunKeyPairDone
  \/ RunCertificateDone
  \/ RunRegisterDone
  \/ ResolveHostDone
  \/ OnMessage
  \/ OnError
  \/ OnSend
  \/ OnTimeout

Spec == Init /\ [][Next]_vars

\* Node's event loop: an awaited call that can return does return, a timer
\* that is armed fires, a sleep ends.
LiveSpec == Spec /\ WF_vars(Next)

(***************************************************************************)
(* The functions applied on their own: one call, on an argument drawn in   *)
(* the initial state, main not running.                                    *)
(***************************************************************************)
mainVars ==
  <<PROVIDER, PUBLIC_IP, pc, sleepFor, initialized, provider, certState, route,
    disk, publicIp, regArg, steps, ipBefore, attempt>>

FnInit ==
  /\ \/ input \in HeaderInputs \cup XorInputs
     \/ input \in ProviderInputs
     \/ input \in AttributesInputs
     \/ input \in TruncatedInputs
     \/ input \in ForeignIdInputs
     \/ input \in Ipv4Inputs
     \/ input \in Ipv6Inputs
  /\ output = <<>>
  /\ PROVIDER = <<>>
  /\ PUBLIC_IP = <<>>
  /\ pc = "none"
  /\ sleepFor = "none"
  /\ initialized = FALSE
  /\ provider = NoProvider
  /\ certState = NoCert
  /\ route = NoRoute
  /\ disk = NoCert
  /\ publicIp = <<>>
  /\ regArg = NoRoute
  /\ steps = <<>>
  /\ ipBefore = <<>>
  /\ attempt = NoAttempt

\* parseBindingResponse(response, transactionId) is called and returns.
ApplyParseBindingResponse ==
  /\ input.fn = "parseBindingResponse" /\ output = <<>>
  /\ output' = <<parseBindingResponse(input.arg, input.transactionId)>>
  /\ UNCHANGED <<input, mainVars>>

\* parseProvider(providerString) is called and returns or throws.
ApplyParseProvider ==
  /\ input.fn = "parseProvider" /\ output = <<>>
  /\ output' = <<parseProvider(input.arg)>>
  /\ UNCHANGED <<input, mainVars>>

\* isValidIPv4(ip) is called and returns.
ApplyIsValidIPv4 ==
  /\ input.fn = "isValidIPv4" /\ output = <<>>
  /\ output' = <<isValidIPv4(input.arg)>>
  /\ UNCHANGED <<input, mainVars>>

\* isValidIPv6(ip) is called and returns.
ApplyIsValidIPv6 ==
  /\ input.fn = "isValidIPv6" /\ output = <<>>
  /\ output' = <<isValidIPv6(input.arg)>>
  /\ UNCHANGED <<input, mainVars>>

FnNext ==
  \/ ApplyParseBindingResponse
  \/ ApplyParseProvider
  \/ ApplyIsValidIPv4
  \/ ApplyIsValidIPv6

FnSpec == FnInit /\ [][FnNext]_vars

\* The call of the function fn has returned r.
Returned(fn, r) == input.fn = fn /\ output = <<r>>

(***************************************************************************)
(* Vocabulary of the properties.                                           *)
(***************************************************************************)
Initializing == ~initialized /\ pc \notin {"start", "exit", "crashed"}
Running == initialized /\ pc # "crashed"

Has(st, op, res) == \E i \in DOMAIN st : st[i].op = op /\ st[i].res = res
At(st, ops) == {i \in DOMAIN st : st[i].op \in ops}

CertOps == {"loadCertificateState", "needsRenewal", "ensureKeyPair", "requestCertificate"}
AddressOps == {"PUBLIC_IP", "detectPublicIp"}
\* The certificate step ended well: a usable certificate was loaded or held,
\* or a requested one was issued.
CertificateOk(st) ==
  \/ Has(st, "loadCertificateState", "ok")
  \/ Has(st, "needsRenewal", "ok")
  \/ Has(st, "requestCertificate", "ok")
AddressOk(st) == Has(st, "PUBLIC_IP", "ok") \/ Has(st, "detectPublicIp", "ok")
\* The log is that of a refresh cycle (it starts with the renewal check).
InCycle == initialized /\ Len(steps) > 0 /\ steps[1].op = "needsRenewal"
\* A call of the chain has just failed.
StepFailed ==
  /\ steps' # steps
  /\ Len(steps') > 0
  /\ steps'[Len(steps')].res = "fail"

(***************************************************************************)
(* C1. main leaves the initialization loop only by the success of the      *)
(* registerRoutes call that ends an attempt whose version check was        *)
(* compatible, whose health check was ready, whose certificate was loaded  *)
(* or issued (certState non-null) and whose address was obtained (route    *)
(* non-null); it then awaits the refresh sleep.                            *)
(***************************************************************************)
C1_RunningOnlyAfterFullChain ==
  [][ (~initialized /\ initialized') =>
        /\ pc = "registerRoutes"
        /\ Has(steps', "checkBackendVersion", "ok")
        /\ Has(steps', "checkBackendHealth", "ok")
        /\ CertificateOk(steps')
        /\ certState'.present
        /\ AddressOk(steps')
        /\ route'.present
        /\ steps'[Len(steps')] = [op |-> "registerRoutes", res |-> "ok"]
        /\ \A i \in DOMAIN steps' : steps'[i].res \in {"ok", "renew"}
        /\ pc' = "sleep" /\ sleepFor' = "REFRESH_INTERVAL" ]_vars

\* Running was entered by an attempt that had to request its certificate.
C1_Witness ==
  /\ initialized /\ pc = "sleep"
  /\ Has(steps, "requestCertificate", "ok")
  /\ Has(steps, "registerRoutes", "ok")

(***************************************************************************)
(* C2. When a call of the initialization chain fails (version check not    *)
(* compatible, health check not ready, key pair or certificate request     *)
(* throwing, discovery exhausted, registration unsuccessful or throwing),  *)
(* main stays in the initialization loop and awaits the error-retry sleep; *)
(* the one thing that follows that sleep is a new attempt, from the        *)
(* version check, whatever the number of earlier attempts.                 *)
(***************************************************************************)
C2_FailureRetriesFromVersionCheck ==
  [][ /\ (Initializing /\ StepFailed) =>
           /\ ~initialized'
           /\ pc' = "sleep"
           /\ sleepFor' = "ERROR_RETRY_INTERVAL"
      /\ (~initialized /\ pc = "sleep") =>
           /\ sleepFor = "ERROR_RETRY_INTERVAL"
           /\ ~initialized'
           /\ pc' = "checkBackendVersion"
           /\ steps' = <<[op |-> "checkBackendVersion", res |-> "pending"]>> ]_vars

\* A retry whose discovery ran out of servers sleeps the error-retry interval.
C2_Witness ==
  /\ ~initialized /\ pc = "sleep" /\ sleepFor = "ERROR_RETRY_INTERVAL"
  /\ Has(steps, "detectPublicIp", "fail")
  /\ regArg.present

(***************************************************************************)
(* C3. As long as the version check of the present attempt has not         *)
(* succeeded, main is in the initialization loop at the version check or   *)
(* the retry sleep and has no registration call under way; a registration  *)
(* call of the initialization loop is under way only when the version      *)
(* check, the health check, the certificate step and the address step of   *)
(* the same attempt have succeeded.                                        *)
(***************************************************************************)
C3_NoRegistrationBeforeChain ==
  /\ (Initializing /\ ~Has(steps, "checkBackendVersion", "ok")) =>
        pc \in {"checkBackendVersion", "sleep"}
  /\ (Initializing /\ pc = "registerRoutes") =>
        /\ Has(steps, "checkBackendVersion", "ok")
        /\ Has(steps, "checkBackendHealth", "ok")
        /\ CertificateOk(steps)
        /\ AddressOk(steps)

\* The version check failed and no registration call was ever made.
C3_Witness ==
  /\ Initializing /\ pc = "sleep"
  /\ steps = <<[op |-> "checkBackendVersion", res |-> "fail"]>>
  /\ ~regArg.present

(***************************************************************************)
(* C4. Once main is in the refresh loop it stays there: it is never back   *)
(* in the initialization loop and the process never ends.                  *)
(***************************************************************************)
C4_RunningForever == [][Running => Running']_vars

(***************************************************************************)
(* C5. In every attempt and every cycle the address step (override or      *)
(* detection) starts only after the certificate step has ended well, and   *)
(* the registration call only after the address step has ended well; no    *)
(* certificate call follows the address step and no address step follows   *)
(* the registration call.                                                  *)
(***************************************************************************)
C5_CertificateThenAddressThenRegistration ==
  /\ \A j \in At(steps, AddressOps) :
       /\ CertificateOk(SubSeq(steps, 1, j - 1))
       /\ \A i \in At(steps, CertOps) : i < j /\ steps[i].res # "pending"
  /\ \A r \in At(steps, {"registerRoutes"}) :
       /\ AddressOk(SubSeq(steps, 1, r - 1))
       /\ \A j \in At(steps, AddressOps) : j < r
  /\ pc = "detectPublicIp" => At(steps, AddressOps) # {}
  /\ pc = "registerRoutes" => At(steps, {"registerRoutes"}) # {}

\* A cycle that renewed the certificate, detected the address and registers.
C5_Witness ==
  /\ InCycle /\ pc = "registerRoutes"
  /\ Has(steps, "requestCertificate", "ok")
  /\ Has(steps, "detectPublicIp", "ok")

(***************************************************************************)
(* C6. The route a registration call receives has as ip the address the    *)
(* address step of the same attempt or cycle obtained.                     *)
(***************************************************************************)
C6_RegistrationCarriesFreshAddress ==
  At(steps, {"registerRoutes"}) # {} =>
    /\ AddressOk(steps)
    /\ publicIp # <<>>
    /\ regArg.present
    /\ regArg.ip = publicIp
    /\ route.ip = publicIp

\* A cycle registers an address other than the one it found in the route.
C6_Witness ==
  /\ InCycle /\ pc = "registerRoutes"
  /\ Has(steps, "detectPublicIp", "ok")
  /\ publicIp # ipBefore

(***************************************************************************)
(* C7. A refresh cycle whose address step obtained an address other than   *)
(* the held route's ip has set route.ip to it and made a registration call *)
(* with it, and route.ip keeps it when that call fails.                    *)
(***************************************************************************)
C7_ChangedAddressIsHeldAndRegistered ==
  (InCycle /\ AddressOk(steps) /\ publicIp # ipBefore) =>
    /\ route.ip = publicIp
    /\ regArg.ip = publicIp
    /\ Cardinality(At(steps, {"registerRoutes"})) = 1

\* The registration call of such a cycle failed.
C7_Witness ==
  /\ InCycle /\ pc = "sleep"
  /\ publicIp # ipBefore
  /\ Has(steps, "registerRoutes", "fail")
  /\ route.ip = publicIp

UnderWay ==
  (IF pc \in {"checkBackendVersion", "checkBackendHealth", "ensureKeyPair",
              "requestCertificate", "registerRoutes", "sleep"}
     THEN {pc} ELSE {})
  \cup (IF pc = "detectPublicIp" \/ attempt.socket = "open" \/ attempt.timer = "armed"
          THEN {"discovery"} ELSE {})

C9_OneOperationAtATime ==
  /\ Cardinality(UnderWay) <= 1
  /\ pc = "sleep" =>
       /\ \A i \in DOMAIN steps : steps[i].res # "pending"
       /\ attempt.promise # "pending"
  /\ attempt.timer = "armed" => attempt.socket = "open"

\* A cycle went to sleep after its last discovery attempt timed out.
C9_Witness ==
  /\ InCycle /\ pc = "sleep"
  /\ attempt.server = Len(STUN_SERVERS)
  /\ attempt.timer = "fired"
  /\ attempt.socket = "closed"

(***************************************************************************)
(* C10. The process ends only by the configuration exit, before any call   *)
(* was made: no outcome of a later step ends it.                           *)
(***************************************************************************)
C10_OnlyConfigurationExit ==
  pc \in {"exit", "crashed"} =>
    /\ pc = "exit"
    /\ steps = <<>>
    /\ attempt = NoAttempt

(***************************************************************************)
(* C11. Under fairness of the agent's steps: if from some point on no call *)
(* of the initialization chain fails, main in the initialization loop      *)
(* eventually enters the refresh loop; and once main is in the refresh     *)
(* loop, refresh cycles start again and again, for ever.                   *)
(***************************************************************************)
InitFailure == Initializing /\ (StepFailed \/ pc' = "crashed")

C11_EventuallyRunningThenCyclesForever ==
  /\ (<>[][~InitFailure]_vars) => (Initializing ~> initialized)
  /\ (<>initialized) => []<><<RunSleepDone>>_vars

(***************************************************************************)
(* C12. One detectPublicIpViaStun call queries the servers of STUN_SERVERS *)
(* in list order, one after the other and each at most once, the IPv4      *)
(* entries before the IPv6 entries: server k is queried only when the      *)
(* attempts on servers 1..k-1, and no others, have failed; and the first   *)
(* attempt that resolves ends the call with an address decoded from a      *)
(* datagram of that attempt, no further server being queried.              *)
(***************************************************************************)
FirstServers(n) == [i \in 1..n |-> i]
\* The addresses the datagrams of an attempt decode to.
DecodedAddresses ==
  [t \in TransactionIds |->
     { parseBindingResponse(msg, t).ip :
         msg \in { m \in Datagrams(t) : parseBindingResponse(m, t).kind = "addr" } }]

C12_ServersInListOrder ==
  /\ [](attempt.server > 0 =>
          /\ attempt.server \in 1..Len(STUN_SERVERS)
          /\ \A i, j \in 1..attempt.server :
               (i < j /\ STUN_SERVERS[i].family = 6) => STUN_SERVERS[j].family = 6
          /\ attempt.promise \in {"pending", "resolved"} =>
               attempt.failed = FirstServers(attempt.server - 1)
          /\ attempt.promise = "rejected" =>
               /\ attempt.server = Len(STUN_SERVERS)
               /\ attempt.failed = FirstServers(Len(STUN_SERVERS))
          /\ pc = "detectPublicIp" => attempt.promise = "pending"
          /\ Has(steps, "detectPublicIp", "ok") =>
               attempt.promise = "resolved" /\ publicIp # <<>>)
  /\ [][ /\ (attempt'.server # attempt.server) =>
             \/ attempt'.server = 1 /\ pc # "detectPublicIp" /\ pc' = "detectPublicIp"
             \/ /\ attempt'.server = attempt.server + 1
                /\ attempt.promise = "pending"
                /\ attempt'.failed = Append(attempt.failed, attempt.server)
         /\ (attempt.promise = "pending" /\ attempt'.promise = "resolved") =>
              /\ attempt.socket = "open"
              /\ attempt'.server = attempt.server
              /\ attempt'.failed = attempt.failed
              /\ publicIp' \in DecodedAddresses[attempt.transactionId]
              /\ pc' # "detectPublicIp" ]_vars

\* The first IPv6 server answered after the five IPv4 servers had failed.
C12_Witness ==
  /\ attempt.promise = "resolved"
  /\ attempt.server = 6
  /\ attempt.failed = <<1, 2, 3, 4, 5>>
  /\ STUN_SERVERS[attempt.server].family = 6
  /\ pc = "registerRoutes"

(***************************************************************************)
(* C13. A detectPublicIpViaStun call ends with the error 'Failed to detect *)
(* public IP via STUN from all servers' exactly when the attempt on every  *)
(* server of the list has failed, and with an address exactly when one     *)
(* attempt has resolved; as long as neither is the case the call is        *)
(* pending.                                                                *)
(***************************************************************************)
C13_ThrowsIffEveryServerFailed ==
  At(steps, {"detectPublicIp"}) # {} =>
    /\ Has(steps, "detectPublicIp", "fail") <=>
          attempt.failed = FirstServers(Len(STUN_SERVERS))
    /\ Has(steps, "detectPublicIp", "ok") <=> attempt.promise = "resolved"
    /\ Has(steps, "detectPublicIp", "pending") <=> attempt.promise = "pending"
    /\ attempt.promise = "resolved" => Len(attempt.failed) < Len(STUN_SERVERS)
    /\ Cardinality(At(steps, {"detectPublicIp"})) = 1

\* A refresh cycle whose discovery ran out of servers.
C13_Witness ==
  /\ InCycle /\ pc = "sleep"
  /\ Has(steps, "detectPublicIp", "fail")
  /\ attempt.failed = FirstServers(Len(STUN_SERVERS))

(***************************************************************************)
(* C14. A reply datagram that fails a header check, or that holds no       *)
(* address attribute whose value lies whole in the datagram with a known   *)
(* family and the length of that family's layout, makes the attempt a      *)
(* failed one: the server is logged as failed and, unless it was the last, *)
(* the next server of the list is queried.                                 *)
(***************************************************************************)
RECURSIVE DecodableFrom(_, _, _)
\* Some attribute from offset on is an address attribute with a whole value.
DecodableFrom(response, offset, endOffset) ==
  IF ~(offset < endOffset /\ offset + 4 <= Len(response)) THEN FALSE
  ELSE
    LET attrType == readUInt16BE(response, offset)
        attrLength == readUInt16BE(response, offset + 2)
        whole == offset + 4 + attrLength <= Len(response)
        family == IF whole /\ attrLength >= 2 THEN response[offset + 6] ELSE 0
        padding == IF attrLength % 4 # 0 THEN 4 - (attrLength % 4) ELSE 0
    IN  \/ /\ attrType \in {STUN_ATTR_MAPPED_ADDRESS, STUN_ATTR_XOR_MAPPED_ADDRESS}
           /\ whole
           /\ (family = 1 /\ attrLength >= 8) \/ (family = 2 /\ attrLength >= 20)
        \/ DecodableFrom(response, offset + 4 + attrLength + padding, endOffset)

Decodable(response) ==
  /\ Len(response) >= 20
  /\ readUInt16BE(response, 0) = STUN_BINDING_RESPONSE
  /\ readUInt32BE(response, 4) = STUN_MAGIC_COOKIE
  /\ DecodableFrom(response, 20, 20 + readUInt16BE(response, 2))

C14_UndecodableReplyFailsTheAttempt ==
  [][ (attempt.socket = "open" /\ attempt'.socket # "open") =>
        \A msg \in Datagrams(attempt.transactionId) :
          (~Decodable(msg) /\ Deliver(msg)) =>
            /\ pc' # "crashed"
            /\ attempt'.failed = Append(attempt.failed, attempt.server)
            /\ attempt.server < Len(STUN_SERVERS) =>
                 /\ pc' = "detectPublicIp"
                 /\ attempt'.server = attempt.server + 1 ]_vars

(***************************************************************************)
(* C15. parseBindingResponse returns null for every buffer shorter than 20 *)
(* bytes, every buffer whose message type is not 0x0101 and every buffer   *)
(* whose bytes 4..7 are not the magic cookie, whatever follows.            *)
(***************************************************************************)
BadHeader(response) ==
  \/ Len(response) < 20
  \/ <<response[1], response[2]>> # <<1, 1>>
  \/ <<response[5], response[6], response[7], response[8]>> # <<33, 18, 164, 66>>

C15_BadHeaderGivesNull ==
  (input.fn = "parseBindingResponse" /\ output # <<>> /\ BadHeader(input.arg)) =>
    output = <<NullResult>>

\* A whole response with a decodable attribute behind a wrong magic cookie.
C15_Witness ==
  /\ Returned("parseBindingResponse", NullResult)
  /\ Len(input.arg) = 32
  /\ <<input.arg[1], input.arg[2]>> = <<1, 1>>
  /\ <<input.arg[5], input.arg[6], input.arg[7], input.arg[8]>> = <<33, 18, 164, 67>>
  /\ Decodable([i \in 1..32 |-> IF i = 8 THEN 66 ELSE input.arg[i]])

(***************************************************************************)
(* C16. For every IPv4 address a.b.c.d and port p, the binding response    *)
(* whose one attribute is an XOR-MAPPED-ADDRESS with family 0x01, port     *)
(* field p XOR 0x2112 and address bytes XORed with 21 12 A4 42 is parsed   *)
(* to ip "a.b.c.d", port p, family 4.                                      *)
(***************************************************************************)
DottedQuad(bytes) == Join([i \in 1..4 |-> DecStr(bytes[i])], <<".">>)

C16_XorDecodingInvertsEncoding ==
  (input.fn = "parseBindingResponse" /\ output # <<>> /\ input.from # <<>>) =>
    output = <<Address(DottedQuad(input.from), input.port, 4)>>

\* 192.255.0.33 port 0x2112, whose port field on the wire is 0.
C16_Witness ==
  /\ Returned("parseBindingResponse",
              Address(<<"1", "9", "2", ".", "2", "5", "5", ".", "0", ".", "3", "3">>,
                      8466, 4))
  /\ input.from = <<192, 255, 0, 33>>
  /\ SubSeq(input.arg, 25, 32) = <<0, 1, 0, 0, 225, 237, 164, 99>>

(***************************************************************************)
(* C17. With a non-empty PUBLIC_IP no discovery is ever started, in the    *)
(* initialization loop or in a refresh cycle; every registerRoutes call    *)
(* receives a route whose ip is PUBLIC_IP, and the held route's ip is and  *)
(* stays PUBLIC_IP.                                                        *)
(***************************************************************************)
C17_OverrideMeansNoDiscovery ==
  PUBLIC_IP # <<>> =>
    /\ attempt = NoAttempt
    /\ pc # "detectPublicIp"
    /\ At(steps, {"detectPublicIp"}) = {}
    /\ regArg.present => regArg.ip = PUBLIC_IP
    /\ route.present => route.ip = PUBLIC_IP
    /\ At(steps, {"registerRoutes"}) # {} => Has(steps, "PUBLIC_IP", "ok")

\* A refresh cycle registers the override after renewing the certificate.
C17_Witness ==
  /\ PUBLIC_IP # <<>>
  /\ InCycle /\ pc = "registerRoutes"
  /\ Has(steps, "requestCertificate", "ok")
  /\ Has(steps, "PUBLIC_IP", "ok")
  /\ regArg.ip = PUBLIC_IP

(***************************************************************************)
(* C18. For a string of three non-empty comma-separated parts whose first  *)
(* part begins with http:// or https://, parseProvider returns the three   *)
(* parts unchanged; for a string with a part missing or empty it throws    *)
(* 'Invalid PROVIDER format'; for a string of three non-empty parts whose  *)
(* first part has another scheme it throws 'backend_url must start with    *)
(* http'.                                                                  *)
(***************************************************************************)
HttpScheme(url) ==
  \/ startsWith(url, <<"h", "t", "t", "p", ":", "/", "/">>)
  \/ startsWith(url, <<"h", "t", "t", "p", "s", ":", "/", "/">>)
PartMissing(parts) == Len(parts) < 3 \/ \E i \in 1..3 : parts[i] = <<>>

C18_ParseProviderContract ==
  (input.fn = "parseProvider" /\ output # <<>>) =>
    LET parts == input.from
    IN  /\ PartMissing(parts) => output[1].kind = "Invalid PROVIDER format"
        /\ (Len(parts) = 3 /\ ~PartMissing(parts) /\ HttpScheme(parts[1])) =>
             output = <<[kind |-> "ok", backendUrl |-> parts[1],
                         userId |-> parts[2], signature |-> parts[3]]>>
        /\ (Len(parts) = 3 /\ ~PartMissing(parts) /\ ~HttpScheme(parts[1])) =>
             output[1].kind = "backend_url must start with http"

(***************************************************************************)
(* C19. Every ProviderConfig parseProvider returns has a backendUrl that   *)
(* begins with http:// or https:// and a non-empty backendUrl, userId and  *)
(* signature.                                                              *)
(***************************************************************************)
C19_ReturnedProviderConfigIsValid ==
  (input.fn = "parseProvider" /\ output # <<>> /\ output[1].kind = "ok") =>
    /\ HttpScheme(output[1].backendUrl)
    /\ output[1].backendUrl # <<>>
    /\ output[1].userId # <<>>
    /\ output[1].signature # <<>>

Numeral(s) == Len(s) > 0 /\ \A i \in 1..Len(s) : s[i] \in DecChars
RECURSIVE ValueOf(_)
\* The value of a decimal numeral.
ValueOf(s) ==
  IF Len(s) = 0 THEN 0
  ELSE 10 * ValueOf(SubSeq(s, 1, Len(s) - 1))
         + (CHOOSE d \in 0..9 : DecDigits[d + 1] = s[Len(s)])
InByte(s) == Numeral(s) /\ ValueOf(s) <= 255

C21_FourSegmentsUpTo255 ==
  (input.fn = "isValidIPv4" /\ output # <<>>) =>
    LET parts == input.from
    IN  output[1] = (Len(parts) = 4 /\ \A i \in 1..4 : InByte(parts[i]))

(***************************************************************************)
(* C21, amended. isValidIPv4 accepts exactly the strings of four           *)
(* dot-separated segments each of one to three decimal digits and of value *)
(* 0..255 (leading zeros allowed within the three digits); it rejects a    *)
(* segment of four or more digits whatever its value, as well as a segment *)
(* above 255, a segment that is not a decimal numeral and a number of      *)
(* segments other than four.                                               *)
(***************************************************************************)
C21_FourSegmentsOfUpToThreeDigits ==
  (input.fn = "isValidIPv4" /\ output # <<>>) =>
    LET parts == input.from
    IN  output[1] =
          (Len(parts) = 4 /\ \A i \in 1..4 : InByte(parts[i]) /\ Len(parts[i]) <= 3)

\* 099.249.255.00 is accepted.
C21_Witness ==
  /\ Returned("isValidIPv4", TRUE)
  /\ input.from = << <<"0", "9", "9">>, <<"2", "4", "9">>, <<"2", "5", "5">>,
                     <<"0", "0">> >>

(***************************************************************************)
(* C22. isValidIPv6 accepts a string only if it is 8 colon-separated       *)
(* groups of 1 to 4 hex digits, or holds exactly one "::" with at most 7   *)
(* explicit groups of 1 to 4 hex digits each; two compressions, more than  *)
(* 8 groups, fewer than 8 groups without "::", an empty group outside the  *)
(* single "::" and a non-hex group are rejected.                           *)
(***************************************************************************)
\* The explicit groups on one side of the compression: none, or a
\* colon-separated list.
ExplicitGroups(s) == IF s = <<>> THEN <<>> ELSE split(s, ":")
AllHex(groups) == \A i \in 1..Len(groups) : HexGroup(groups[i])
Compressions(s) == { k \in 1..(Len(s) - 1) : s[k] = ":" /\ s[k + 1] = ":" }
WellFormedIPv6(ip) ==
  \/ Len(split(ip, ":")) = 8 /\ AllHex(split(ip, ":"))
  \/ /\ Cardinality(Compressions(ip)) = 1
     /\ LET k == CHOOSE k \in Compressions(ip) : TRUE
            left == ExplicitGroups(SubSeq(ip, 1, k - 1))
            right == ExplicitGroups(SubSeq(ip, k + 2, Len(ip)))
        IN  Len(left) + Len(right) <= 7 /\ AllHex(left) /\ AllHex(right)

C22_AcceptsOnlyWellFormedIPv6 ==
  (input.fn = "isValidIPv6" /\ output # <<>>) =>
    (output[1] => WellFormedIPv6(input.arg))

(***************************************************************************)
(* C24. In every discovery attempt the transaction id handed to the        *)
(* response parser is the 12-byte id embedded in the request datagram that *)
(* this attempt sent, and each attempt generates its id anew: a new        *)
(* attempt starts without id and request, and its request is built from an *)
(* id drawn when its socket is set up.                                     *)
(***************************************************************************)
\* Bytes 8..19 of a request datagram.
EmbeddedId(request) == SubSeq(request, 9, 20)
\* The step starts an attempt: queryStunServer is called.
AttemptStarts ==
  /\ attempt'.promise = "pending"
  /\ attempt.promise # "pending" \/ attempt'.server # attempt.server
\* The step sends the request of the attempt.
RequestSent == attempt.request = <<>> /\ attempt'.request # <<>>

C24_ParserGetsTheIdOfTheRequest ==
  /\ [](/\ attempt.parsedWith # <<>> =>
             attempt.parsedWith = EmbeddedId(attempt.request)
        /\ attempt.request # <<>> =>
             /\ Len(attempt.request) = 20
             /\ EmbeddedId(attempt.request) = attempt.transactionId
             /\ attempt.transactionId \in TransactionIds)
  /\ [][/\ AttemptStarts =>
             attempt'.transactionId = <<>> /\ attempt'.request = <<>>
                                           /\ attempt'.parsedWith = <<>>
        /\ RequestSent =>
             /\ attempt.transactionId = <<>>
             /\ attempt'.server = attempt.server
        /\ (attempt.request # <<>> /\ ~AttemptStarts) =>
             attempt'.request = attempt.request]_vars

\* The second server's reply was parsed with the id of the second request,
\* which is not the id of the first.
C24_Witness ==
  /\ attempt.server = 2
  /\ attempt.parsedWith = [i \in 1..12 |-> 16 * i + 1]
  /\ EmbeddedId(attempt.request) = attempt.parsedWith
  /\ publicIp # <<>>

(***************************************************************************)
(* C25. parseBindingResponse walks the attributes in wire order and        *)
(* returns the address of the first attribute that is an XOR-mapped or a   *)
(* plain mapped address and decodes: the plain mapped address when it      *)
(* comes before an XOR-mapped one; attributes of other types and address   *)
(* attributes that do not decode are passed over, attributes after the one *)
(* returned have no effect, and null is returned when none decodes.        *)
(***************************************************************************)
\* The address an attribute of the inputs holds.
Holds(name) ==
  CASE name = "X4" ->
         <<Address(<<"1", "9", "2", ".", "1", "6", "8", ".", "1", ".", "1">>, 12345, 4)>>
    [] name = "M4" ->
         <<Address(<<"1", "0", ".", "0", ".", "0", ".", "1">>, 80, 4)>>
    [] name = "X6" -> <<Address(formatIpv6(Ipv6Bytes), 443, 6)>>
    [] name = "M6" -> <<Address(formatIpv6(Ipv6Bytes), 80, 6)>>
    [] OTHER -> <<>>
RECURSIVE FirstAddress(_)
FirstAddress(names) ==
  IF names = <<>> THEN NullResult
  ELSE IF Holds(Head(names)) # <<>> THEN Holds(Head(names))[1]
  ELSE FirstAddress(Tail(names))

C25_FirstDecodableAttributeWins ==
  (input.fn = "parseBindingResponse" /\ input.attributes # <<>> /\ output # <<>>) =>
    output[1] = FirstAddress(input.attributes)

(***************************************************************************)
(* C26. As stated: in a refresh cycle a certificate request is made if and *)
(* only if the held certificate needs renewal; a successful request        *)
(* replaces the held certificate state by the new one, a failed one leaves *)
(* it as it was, and every later cycle tries again while the held          *)
(* certificate needs renewal.                                              *)
(***************************************************************************)
Called(st, op) == \E i \in DOMAIN st : st[i].op = op
\* The step is the end of the refresh sleep: the cycle begins and looks at
\* the certificate it holds then (certState').
CycleBegins == pc = "sleep" /\ initialized /\ pc' # "sleep"
\* The step is the return of requestCertificate in a cycle.
RequestReturns == pc = "requestCertificate" /\ initialized /\ pc' # pc
\* A cycle over: its log is complete.
CycleOver == InCycle /\ pc = "sleep"
\* What every cycle does to the held certificate.
HeldCertificateSteps ==
  /\ (RequestReturns /\ Has(steps', "requestCertificate", "ok")) =>
       /\ certState'.present /\ certState'.serial # certState.serial
       /\ certState' = disk'
  /\ (RequestReturns /\ Has(steps', "requestCertificate", "fail")) =>
       certState' = certState /\ pc' = "sleep"
  /\ (initialized /\ ~RequestReturns /\ ~CycleBegins) => certState' = certState

C26_RequestIffRenewalNeeded ==
  /\ [](CycleOver =>
          (Called(steps, "requestCertificate") <=> steps[1].res = "renew"))
  /\ [][/\ CycleBegins =>
             (steps'[1].res = "renew" <=>
                certState'.present /\ needsRenewal(certState'.expiresIn))
        /\ HeldCertificateSteps]_vars

(***************************************************************************)
(* C26, amended. In a refresh cycle the renewal is begun (the key pair is  *)
(* ensured) if and only if the held certificate needs renewal, and the     *)
(* certificate request is made if and only if the renewal was begun and    *)
(* the key pair was obtained: a cycle whose key step fails makes no        *)
(* request. A successful request replaces the held certificate state by    *)
(* the new one, a failed one leaves it as it was (even when expired), and  *)
(* every later cycle begins the renewal again while the held certificate   *)
(* needs renewal.                                                          *)
(***************************************************************************)
C26_RenewalIffNeededRequestIfKey ==
  /\ [](/\ InCycle =>
             (Called(steps, "ensureKeyPair") <=> steps[1].res = "renew")
        /\ CycleOver =>
             (Called(steps, "requestCertificate")
                <=> Has(steps, "ensureKeyPair", "ok")))
  /\ [][/\ CycleBegins =>
             /\ steps'[1].res = "renew" <=>
                  certState'.present /\ needsRenewal(certState'.expiresIn)
             /\ steps'[1].res = "renew" <=> pc' = "ensureKeyPair"
        /\ HeldCertificateSteps]_vars

\* A request has failed in a cycle that began with the expired certificate,
\* which is still held.
C26_Witness ==
  /\ CycleOver
  /\ Has(steps, "requestCertificate", "fail")
  /\ certState.present /\ certState.expiresIn = 0

(***************************************************************************)
(* C27. A refresh cycle calls registerRoutes only if every earlier step of *)
(* the cycle succeeded: after a failed certificate request the cycle has   *)
(* neither address step nor registration, after a failed address detection*)
(* it has no registration, and in both cases the held route is the one the *)
(* cycle began with; a failed step is the last step of its cycle.          *)
(***************************************************************************)
C27_RegistrationOnlyAfterSuccessfulSteps ==
  InCycle =>
    /\ \A i \in DOMAIN steps :
         steps[i].op = "registerRoutes" =>
           \A j \in 1..(i - 1) : steps[j].res \in {"ok", "renew"}
    /\ \A j \in DOMAIN steps :
         steps[j].res = "fail" => j = Len(steps) /\ pc = "sleep"
    /\ Has(steps, "requestCertificate", "fail") =>
         /\ At(steps, AddressOps \cup {"registerRoutes"}) = {}
         /\ route.ip = ipBefore
    /\ Has(steps, "detectPublicIp", "fail") =>
         /\ At(steps, {"registerRoutes"}) = {}
         /\ route.ip = ipBefore

\* A cycle renewed the certificate and then failed to detect the address.
C27_Witness ==
  /\ InCycle /\ pc = "sleep"
  /\ Has(steps, "requestCertificate", "ok")
  /\ Has(steps, "detectPublicIp", "fail")
  /\ attempt.failed = FirstServers(Len(STUN_SERVERS))

(***************************************************************************)
(* C28. Each discovery attempt settles exactly once and closes its socket  *)
(* exactly once: the first event after the request was sent (reply, socket *)
(* error, send error, timeout) closes the socket and settles the promise,  *)
(* the timer does not fire after a reply or an error was handled, no later *)
(* event closes the socket again or changes the outcome, and an attempt    *)
(* whose name resolution succeeded settles.                                *)
(***************************************************************************)
Settled(att) == att.promise \in {"resolved", "rejected"}
\* The attempt of the next state is the attempt of this one.
SameAttempt == ~AttemptStarts /\ attempt'.server = attempt.server
\* The step of an event handler that calls socket.close().
Closes == attempt.socket = "open" /\ attempt'.socket = "closed"
\* socket.close() was called on a socket that was not open.
ClosedTwice == closeThrows(attempt) /\ pc # "crashed" /\ pc' = "crashed"

C28_SettlesOnceClosesOnce ==
  /\ [](/\ attempt.socket = "closed" =>
             Settled(attempt) /\ attempt.timer # "armed"
        /\ attempt.socket = "open" =>
             attempt.promise = "pending" /\ attempt.timer = "armed")
  /\ [][/\ (Settled(attempt) /\ SameAttempt) =>
             /\ attempt'.promise = attempt.promise
             /\ attempt'.socket = attempt.socket
             /\ attempt'.timer = attempt.timer
        /\ Closes => attempt.promise = "pending"
        /\ ~ClosedTwice]_vars

\* The part of C28 that does not depend on what the parser does with the
\* reply: one close, no event after it, nothing after the promise settled.
C28_ExceptParserThrow ==
  /\ [](/\ (attempt.socket = "closed" /\ pc # "crashed") =>
             Settled(attempt) /\ attempt.timer # "armed"
        /\ (attempt.socket = "closed" /\ pc = "crashed") =>
             attempt.timer # "armed"
        /\ attempt.socket = "open" =>
             attempt.promise = "pending" /\ attempt.timer = "armed")
  /\ [][/\ (Settled(attempt) /\ SameAttempt) =>
             /\ attempt'.promise = attempt.promise
             /\ attempt'.socket = attempt.socket
             /\ attempt'.timer = attempt.timer
        /\ Closes => attempt.promise = "pending"
        /\ ~ClosedTwice
        /\ pc = "crashed" => UNCHANGED attempt]_vars

(***************************************************************************)
(* C29. parseBindingResponse returns an address only when the whole value  *)
(* of the address attribute lies inside the received buffer and inside the *)
(* declared message length: a response whose address attribute declares a  *)
(* length of 8 or 20 and whose buffer ends before the value ends yields no *)
(* address.                                                                *)
(***************************************************************************)
C29_AddressOnlyFromWholeAttribute ==
  (input.fn = "parseBindingResponse" /\ input.truncated # <<>> /\ output # <<>>) =>
    LET kept == input.truncated[2]
        declared == input.truncated[3]
        attrLength == input.truncated[4]
    IN  output[1].kind = "addr" =>
          /\ 4 + attrLength <= kept
          /\ 4 + attrLength <= declared

(***************************************************************************)
(* C30. What the parser makes of a reply, and with it the outcome of the   *)
(* discovery attempt, does not depend on the transaction id in the reply   *)
(* header (bytes 8..19): replies that differ only in those bytes give the  *)
(* same result, so a reply whose id is not the request's is accepted like  *)
(* a matching one.                                                         *)
(***************************************************************************)
C30_HeaderIdDoesNotMatter ==
  (input.fn = "parseBindingResponse" /\ output # <<>>) =>
    \A id \in HeaderIds :
      parseBindingResponse(WithHeaderId(input.arg, id), input.transactionId)
        = output[1]

\* A reply that carries an id no request carries was decoded to an address.
C30_Witness ==
  /\ input.fn = "parseBindingResponse" /\ output # <<>>
  /\ Len(input.arg) >= 20
  /\ SubSeq(input.arg, 9, 20) \notin TransactionIds
  /\ output[1].kind = "addr"
  /\ output[1] = parseBindingResponse(WithHeaderId(input.arg, input.transactionId),
                                      input.transactionId)

(***************************************************************************)
(* C31. A refresh cycle changes nothing of the held route except possibly  *)
(* its ip: at every registration call in the Running state the route's     *)
(* port, priority, label and healthCheck are those the route was built     *)
(* with in the successful initialization attempt, and after initialization *)
(* the route is never built anew or replaced.                              *)
(***************************************************************************)
\* A route with its ip left out.
Frame(r) ==
  [present |-> r.present, port |-> r.port, priority |-> r.priority,
   label |-> r.label, healthCheck |-> r.healthCheck]
\* The step calls registerRoutes.
RegistrationCalled == pc # "registerRoutes" /\ pc' = "registerRoutes"

C31_OnlyTheIpOfTheRouteChanges ==
  /\ [](initialized =>
          Frame(route) = Frame(buildRoute(<<>>, TARGET_PORT, ROUTE_PRIORITY,
                                          "agent", healthCheck)))
  /\ [][/\ (~initialized /\ initialized') => route' = route
        /\ initialized =>
             /\ Frame(route') = Frame(route)
             /\ route' # route => (InCycle' /\ route'.ip = publicIp')
        /\ (initialized /\ RegistrationCalled) =>
             regArg' = route' /\ Frame(regArg') = Frame(route)]_vars

\* A cycle registers the route under a new ip, its frame that of the
\* initialization.
C31_Witness ==
  /\ InCycle /\ pc = "registerRoutes"
  /\ route.ip # ipBefore
  /\ regArg = buildRoute(publicIp, TARGET_PORT, ROUTE_PRIORITY, "agent", healthCheck)
  /\ regArg = route

====
